---- MODULE Spec2Model ----
(***************************************************************************)
(* PresenceWidget (docs/examples/gtk_presence_app/presence-widget.c): a    *)
(* GTK frame that mirrors one TpAccount.  The model holds the widget's     *)
(* private structure, the account it is bound to, the asynchronous calls   *)
(* it has outstanding, and the reference counts the widget manipulates.    *)
(* Every signal handler runs to completion on the single main-loop thread, *)
(* so each handler is one action.                                          *)
(***************************************************************************)
EXTENDS Integers, Sequences, FiniteSets, TLC

\* ------------------------------------------------------------------ bounds
\* most set_enabled requests outstanding at once
MaxSetEnabled == 1
\* most become-ready requests outstanding at once
MaxReady == 1
\* most Statuses fetches outstanding at once
MaxFetch == 1

\* ------------------------------------------------------------- value sets
NULL == "NULL"
\* a pointer to a child widget that has been destroyed
DANGLING == "dangling"
\* the one TpAccount object of the model
ACCOUNT == "account"
\* TpConnectionPresenceType values the account takes in the model
PresenceKinds == {2, 3}
\* display names and status messages the account takes
DisplayNames == {"alice", "bob"}
StatusMessages == {"", "brb"}
\* TpConnection objects the account may be associated with
Connections == {"conn1"}
\* SimpleStatusSpecMap objects a Statuses reply may carry
Maps == {"map1", "map2"}

TP_CONNECTION_STATUS_CONNECTED == 0
TP_CONNECTION_STATUS_CONNECTING == 1
TP_CONNECTION_STATUS_DISCONNECTED == 2
ConnectionStatuses == {TP_CONNECTION_STATUS_CONNECTED,
                       TP_CONNECTION_STATUS_CONNECTING,
                       TP_CONNECTION_STATUS_DISCONNECTED}

\* the six signals presence_widget_constructed connects on the account
AccountSignals == {"notify::enabled", "notify::display-name",
                   "notify::presence", "notify::status-message",
                   "status-changed", "removed"}

\* ---------------------------------------------------------- static tables
\* the size both tables are declared with (lines 41 and 53)
NUM_TP_CONNECTION_PRESENCE_TYPES == 9
\* every TpConnectionPresenceType value, Unset (0) to Error (8)
AllPresenceKinds == 0 .. (NUM_TP_CONNECTION_PRESENCE_TYPES - 1)
presence_icons == <<"empathy-offline", "empathy-offline", "empathy-available",
                    "empathy-away", "empathy-extended-away", "empathy-offline",
                    "empathy-busy", "empathy-offline", "empathy-offline">>

\* (variant) the entries for Hidden and Busy exchanged
Mut_default_messages_swapped ==
    <<"Unset", "Offline", "Available", "Away", "Extended Away",
      "Busy", "Hidden", "Unknown", "Error">>

default_messages == <<"Unset", "Offline", "Available", "Away", "Extended Away",
                      "Hidden", "Busy", "Unknown", "Error">>

\* C arrays are indexed from 0, sequences from 1
IconFor(presence) == presence_icons[presence + 1]
DefaultMessageFor(presence) == default_messages[presence + 1]

\* ------------------------------------------------------------------ state
VARIABLES
    lifecycle,    \* "none" | "alive" | "disposed" | "finalized"
    new_result,   \* what the last presence_widget_new returned
    priv,         \* PresenceWidgetPrivate and the content of its child widgets
    subs,         \* signals connected on the account with the widget as data
    acc,          \* the TpAccount's observable fields
    calls,        \* asynchronous requests issued and not yet completed
    heap,         \* reference counts held on the account and on the maps
    toggled_log,  \* the _enabled_toggled invocations of the last step
    warning       \* the function that logged a GLib warning or critical in
                  \* the last step

vars == <<lifecycle, new_result, priv, subs, acc, calls, heap, toggled_log,
          warning>>

\* what the handlers read and write, as one value
Cur == [lifecycle |-> lifecycle, priv |-> priv, subs |-> subs,
        calls |-> calls, heap |-> heap, log |-> <<>>, warning |-> ""]

Commit(s) ==
    /\ lifecycle' = s.lifecycle
    /\ priv' = s.priv
    /\ subs' = s.subs
    /\ calls' = s.calls
    /\ heap' = s.heap
    /\ toggled_log' = s.log
    /\ warning' = s.warning

\* presence_widget_init: zeroed private data, an inactive check button with
\* no label, an empty image and a label holding ""
InitPriv ==
    [account |-> NULL, statuses |-> NULL,
     enabled_check |-> [active |-> FALSE, label |-> ""],
     status_icon |-> "", status_message |-> "",
     updating_ui_lock |-> 0]

Init ==
    /\ lifecycle = "none"
    /\ new_result = "none"
    /\ priv = InitPriv
    /\ subs = {}
    /\ acc \in [enabled : BOOLEAN, display_name : DisplayNames,
                presence : PresenceKinds, status_message : StatusMessages,
                connection_status : ConnectionStatuses,
                connection : {NULL} \cup Connections]
    /\ calls = [set_enabled |-> <<>>, ready |-> 0, fetch |-> 0]
    /\ heap = [account_refs |-> 0, map_refs |-> [m \in Maps |-> 0],
               bad_unref |-> FALSE]
    /\ toggled_log = <<>>
    /\ warning = ""

\* --------------------------------------------------------------- handlers
\* (variant) the request carries the value the toggle had before the click
Mut_enabled_toggled_stale(s, active) ==
    LET logged == [s EXCEPT !.log = Append(@, [lock |-> s.priv.updating_ui_lock,
                                                active |-> active])]
    IN  IF s.priv.updating_ui_lock > 0
        THEN logged
        ELSE [logged EXCEPT !.calls.set_enabled = Append(@, ~active)]

\* (variant) the toggle handler does not look at the guard
Mut_enabled_toggled_guard_ignored(s, active) ==
    [s EXCEPT !.log = Append(@, [lock |-> s.priv.updating_ui_lock,
                                 active |-> active]),
              !.calls.set_enabled = Append(@, active)]

\* _enabled_toggled (lines 295-306)
_enabled_toggled(s, active) ==
    LET logged == [s EXCEPT !.log = Append(@, [lock |-> s.priv.updating_ui_lock,
                                                active |-> active])]
    IN  IF s.priv.updating_ui_lock > 0
        THEN logged
        ELSE [logged EXCEPT !.calls.set_enabled = Append(@, active)]

\* gtk_toggle_button_set_active: a no-op when the value is unchanged,
\* otherwise the button flips and emits "toggled" synchronously
gtk_toggle_button_set_active(s, is_active) ==
    IF s.priv.enabled_check.active = is_active
    THEN s
    ELSE _enabled_toggled([s EXCEPT !.priv.enabled_check.active = is_active],
                          is_active)

\* (variant) the write to the toggle is not bracketed by the guard
Mut_notify_enabled_unguarded(s, a) ==
    gtk_toggle_button_set_active(s, a.enabled)

\* (variant) the guard is raised and never lowered
Mut_notify_enabled_no_decrement(s, a) ==
    LET s1 == [s EXCEPT !.priv.updating_ui_lock = @ + 1]
    IN  gtk_toggle_button_set_active(s1, a.enabled)

\* _notify_enabled (lines 105-116)
_notify_enabled(s, a) ==
    LET s1 == [s EXCEPT !.priv.updating_ui_lock = @ + 1]
        s2 == gtk_toggle_button_set_active(s1, a.enabled)
    IN  [s2 EXCEPT !.priv.updating_ui_lock = @ - 1]

\* _notify_display_name (lines 118-127)
_notify_display_name(s, a) ==
    [s EXCEPT !.priv.enabled_check.label = a.display_name]

\* _notify_presence (lines 129-141)
_notify_presence(s, a) ==
    [s EXCEPT !.priv.status_icon = IconFor(a.presence)]

\* _notify_status_message (lines 143-158)
_notify_status_message(s, a) ==
    LET msg == IF a.status_message = ""
               THEN DefaultMessageFor(a.presence)
               ELSE a.status_message
    IN  [s EXCEPT !.priv.status_message = msg]

\* g_hash_table_unref on a map of the model: releasing a map whose count is
\* already zero is a release of freed memory
g_hash_table_unref(s, m) ==
    IF s.heap.map_refs[m] = 0
    THEN [s EXCEPT !.heap.bad_unref = TRUE]
    ELSE [s EXCEPT !.heap.map_refs[m] = @ - 1]

g_hash_table_ref(s, m) == [s EXCEPT !.heap.map_refs[m] = @ + 1]

\* (variant) a failed fetch drops the cached map
Mut_get_property_statuses_clear_on_error(s, error, value) ==
    IF error
    THEN IF s.priv.statuses # NULL
         THEN [g_hash_table_unref(s, s.priv.statuses)
                  EXCEPT !.priv.statuses = NULL,
                         !.warning = "_get_property_statuses"]
         ELSE [s EXCEPT !.warning = "_get_property_statuses"]
    ELSE IF value \notin Maps THEN s
    ELSE LET s1 == IF s.priv.statuses # NULL
                   THEN g_hash_table_unref(s, s.priv.statuses)
                   ELSE s
             s2 == g_hash_table_ref(s1, value)
         IN  [s2 EXCEPT !.priv.statuses = value]

\* (variant) the previously cached map is not released
Mut_get_property_statuses_no_unref(s, error, value) ==
    IF error THEN [s EXCEPT !.warning = "_get_property_statuses"]
    ELSE IF value \notin Maps THEN s
    ELSE [g_hash_table_ref(s, value) EXCEPT !.priv.statuses = value]

\* (variant) a failed fetch starts the readiness probe again
Mut_get_property_statuses_retry(s, error, value) ==
    IF error
    THEN [s EXCEPT !.warning = "_get_property_statuses",
                   !.calls.ready = @ + 1]
    ELSE IF value \notin Maps THEN s
    ELSE LET s1 == IF s.priv.statuses # NULL
                   THEN g_hash_table_unref(s, s.priv.statuses)
                   ELSE s
             s2 == g_hash_table_ref(s1, value)
         IN  [s2 EXCEPT !.priv.statuses = value]

\* _get_property_statuses (lines 160-181); error is a BOOLEAN, value is a
\* map of Maps or "not-a-map" when the reply holds another type
_get_property_statuses(s, error, value) ==
    IF error THEN [s EXCEPT !.warning = "_get_property_statuses"]
    ELSE IF value \notin Maps THEN s
    ELSE LET s1 == IF s.priv.statuses # NULL
                   THEN g_hash_table_unref(s, s.priv.statuses)
                   ELSE s
             s2 == g_hash_table_ref(s1, value)
         IN  [s2 EXCEPT !.priv.statuses = value]

\* (variant) the fetch is issued without asking for the interface
Mut_connection_ready_no_interface_test(s, error, has_interface) ==
    IF error THEN [s EXCEPT !.warning = "_connection_ready"]
    ELSE [s EXCEPT !.calls.fetch = @ + 1]

\* (variant) the error of the readiness callback is not looked at
Mut_connection_ready_error_ignored(s, error, has_interface) ==
    IF has_interface
    THEN [s EXCEPT !.calls.fetch = @ + 1]
    ELSE s

\* _connection_ready (lines 183-207); has_interface is what
\* tp_proxy_has_interface answers for the simple-presence interface
_connection_ready(s, error, has_interface) ==
    IF error THEN [s EXCEPT !.warning = "_connection_ready"]
    ELSE IF has_interface THEN [s EXCEPT !.calls.fetch = @ + 1]
    ELSE s

\* (variant) every status with a connection starts the probe
Mut_status_changed_any_status(s, new_status, a) ==
    IF a.connection = NULL THEN s
    ELSE [s EXCEPT !.calls.ready = @ + 1]

\* _status_changed (lines 209-224)
_status_changed(s, new_status, a) ==
    IF a.connection = NULL THEN s
    ELSE IF \/ new_status = TP_CONNECTION_STATUS_CONNECTED
            \/ new_status = TP_CONNECTION_STATUS_DISCONNECTED
         THEN [s EXCEPT !.calls.ready = @ + 1]
         ELSE s

\* presence_widget_dispose (lines 263-272): g_object_unref of a NULL pointer
\* fails its precondition, logs a critical and releases nothing.  The parent
\* class's dispose destroys the child widgets, which priv still points to.
presence_widget_dispose(s) ==
    LET s1 == IF s.priv.account = NULL
              THEN [s EXCEPT !.warning = "presence_widget_dispose"]
              ELSE [s EXCEPT !.heap.account_refs = @ - 1]
    IN  [s1 EXCEPT !.priv.account = NULL,
                   !.priv.enabled_check = DANGLING,
                   !.priv.status_icon = DANGLING,
                   !.priv.status_message = DANGLING]

\* presence_widget_set_property, PROP_ACCOUNT (lines 85-103)
presence_widget_set_property(s, value) ==
    IF value = NULL
    THEN [s EXCEPT !.priv.account = NULL]
    ELSE [s EXCEPT !.priv.account = value, !.heap.account_refs = @ + 1]

\* (variant) the status message is not primed at construction
Mut_constructed_message_unprimed(s, a) ==
    LET s0 == [s EXCEPT !.subs = AccountSignals]
        s1 == _notify_enabled(s0, a)
        s2 == _notify_display_name(s1, a)
        s3 == _notify_presence(s2, a)
    IN  _status_changed(s3, a.connection_status, a)

\* presence_widget_constructed (lines 234-261)
presence_widget_constructed(s, a) ==
    LET s0 == [s EXCEPT !.subs = AccountSignals]
        s1 == _notify_enabled(s0, a)
        s2 == _notify_display_name(s1, a)
        s3 == _notify_presence(s2, a)
        s4 == _notify_status_message(s3, a)
    IN  _status_changed(s4, a.connection_status, a)

\* (variant) the account argument is not validated
Mut_new_unchecked(s, account, a) ==
    [ret |-> "widget",
     s |-> presence_widget_constructed(
               presence_widget_set_property(
                   [s EXCEPT !.priv = InitPriv, !.lifecycle = "alive"],
                   account), a)]

\* presence_widget_new (lines 337-345): the result and the state it leaves
presence_widget_new(s, account, a) ==
    IF account = NULL
    THEN [ret |-> "NULL", s |-> s]
    ELSE [ret |-> "widget",
          s |-> presence_widget_constructed(
                    presence_widget_set_property(
                        [s EXCEPT !.priv = InitPriv, !.lifecycle = "alive"],
                        account), a)]

\* the handler a signal of the account runs
Handler(sig, s, a) ==
    CASE sig = "notify::enabled" -> _notify_enabled(s, a)
      [] sig = "notify::display-name" -> _notify_display_name(s, a)
      [] sig = "notify::presence" -> _notify_presence(s, a)
      [] sig = "notify::status-message" -> _notify_status_message(s, a)

\* the account emits a property notification: the handler runs if connected.
\* On a widget that was destroyed the handler dereferences child widgets
\* that no longer exist.
Emit(sig, s, a) ==
    IF sig \notin s.subs THEN s
    ELSE IF s.lifecycle = "alive" THEN Handler(sig, s, a)
    ELSE s

EmitDangling(sig) == sig \in subs /\ lifecycle # "alive"

\* ----------------------------------------------------------------- actions
\* The account notifies a property when its value changes, and emits
\* "status-changed" when its connection status changes.
New(account) ==
    /\ lifecycle = "none"
    /\ LET r == presence_widget_new(Cur, account, acc)
       IN  /\ new_result' = r.ret
           /\ Commit(r.s)
           /\ r.s.calls.ready <= MaxReady
    /\ UNCHANGED acc

AccountSetEnabled(b) ==
    /\ b # acc.enabled
    /\ acc' = [acc EXCEPT !.enabled = b]
    /\ LET s == Emit("notify::enabled", Cur, acc')
       IN  /\ Len(s.calls.set_enabled) <= MaxSetEnabled
           /\ Commit(s)
    /\ UNCHANGED new_result

AccountSetDisplayName(n) ==
    /\ n # acc.display_name
    /\ acc' = [acc EXCEPT !.display_name = n]
    /\ Commit(Emit("notify::display-name", Cur, acc'))
    /\ UNCHANGED new_result

AccountSetPresence(p) ==
    /\ p # acc.presence
    /\ acc' = [acc EXCEPT !.presence = p]
    /\ Commit(Emit("notify::presence", Cur, acc'))
    /\ UNCHANGED new_result

AccountSetStatusMessage(m) ==
    /\ m # acc.status_message
    /\ acc' = [acc EXCEPT !.status_message = m]
    /\ Commit(Emit("notify::status-message", Cur, acc'))
    /\ UNCHANGED new_result

\* a presence change that carries a new message: both notifications follow
AccountSetPresenceAndMessage(p, m) ==
    /\ p # acc.presence
    /\ m # acc.status_message
    /\ acc' = [acc EXCEPT !.presence = p, !.status_message = m]
    /\ Commit(Emit("notify::status-message",
                   Emit("notify::presence", Cur, acc'), acc'))
    /\ UNCHANGED new_result

\* the user clicks the check button: it flips and emits "toggled"
UserToggle ==
    /\ lifecycle = "alive"
    /\ Len(calls.set_enabled) < MaxSetEnabled
    /\ Commit(gtk_toggle_button_set_active(Cur, ~priv.enabled_check.active))
    /\ UNCHANGED <<new_result, acc>>

\* (variant) a completion callback puts the toggle back when the account
\* rejected the request
Mut_SetEnabledComplete_revert(ok) ==
    /\ calls.set_enabled # <<>>
    /\ LET popped == [Cur EXCEPT !.calls.set_enabled = Tail(@)]
       IN  IF ok
           THEN /\ acc' = [acc EXCEPT !.enabled = Head(calls.set_enabled)]
                /\ Commit(IF acc' # acc
                          THEN Emit("notify::enabled", popped, acc')
                          ELSE popped)
           ELSE /\ Commit(IF lifecycle = "alive"
                          THEN [popped EXCEPT
                                  !.priv.enabled_check.active = acc.enabled]
                          ELSE popped)
                /\ UNCHANGED acc
    /\ UNCHANGED new_result

\* a set_enabled request completes; tp_account_set_enabled_async was given
\* no callback (line 305), so no widget code runs for the completion itself.
\* When the account accepted it, its enabled property takes the requested
\* value and, if that is a change, notifies.
SetEnabledComplete(ok) ==
    /\ calls.set_enabled # <<>>
    /\ LET popped == [Cur EXCEPT !.calls.set_enabled = Tail(@)]
       IN  IF ok
           THEN /\ acc' = [acc EXCEPT !.enabled = Head(calls.set_enabled)]
                /\ Commit(IF acc' # acc
                          THEN Emit("notify::enabled", popped, acc')
                          ELSE popped)
           ELSE /\ Commit(popped)
                /\ UNCHANGED acc
    /\ UNCHANGED new_result

\* the account's connection status changes and "status-changed" is emitted;
\* the handler does not dereference the widget
AccountStatusChanged(new_status, conn) ==
    /\ new_status # acc.connection_status
    /\ acc' = [acc EXCEPT !.connection_status = new_status,
                          !.connection = conn]
    /\ LET s == IF "status-changed" \in subs
                THEN _status_changed(Cur, new_status, acc')
                ELSE Cur
       IN  /\ s.calls.ready <= MaxReady
           /\ Commit(s)
    /\ UNCHANGED new_result

\* a become-ready request completes (tp_connection_call_when_ready was
\* given the widget as plain user data: nothing cancels it).  On a finalized
\* widget the callback reads freed memory: it may or may not issue the fetch.
ReadyComplete(error, has_interface) ==
    /\ calls.ready > 0
    /\ UNCHANGED <<new_result, acc>>
    /\ LET popped == [Cur EXCEPT !.calls.ready = @ - 1]
           ran == _connection_ready(popped, error, has_interface)
       IN  /\ ran.calls.fetch <= MaxFetch
           /\ IF lifecycle = "finalized"
              THEN Commit(ran) \/ Commit(popped)
              ELSE Commit(ran)

\* a Statuses fetch completes.  The reply's GValue holds its own reference
\* on the map for the duration of the callback.
FetchComplete(error, value) ==
    /\ calls.fetch > 0
    /\ UNCHANGED <<new_result, acc>>
    /\ LET popped == [Cur EXCEPT !.calls.fetch = @ - 1]
           boxed == IF ~error /\ value \in Maps
                    THEN g_hash_table_ref(popped, value)
                    ELSE popped
           ran == _get_property_statuses(boxed, error, value)
           unset == IF ~error /\ value \in Maps
                    THEN g_hash_table_unref(ran, value)
                    ELSE ran
       IN  IF lifecycle = "finalized"
           THEN Commit(popped)
           ELSE Commit(unset)

\* gtk_widget_destroy: runs the dispose chain unless the object is freed
gtk_widget_destroy(s) ==
    IF s.lifecycle = "finalized" THEN s
    ELSE [presence_widget_dispose(s) EXCEPT !.lifecycle = "disposed"]

\* (variant) the widget is kept while a request is outstanding
Mut_account_removed_unless_busy(s) ==
    IF s.calls.ready > 0 \/ s.calls.fetch > 0 THEN s
    ELSE gtk_widget_destroy(s)

\* _account_removed (lines 226-232)
_account_removed(s) == gtk_widget_destroy(s)

\* the account reports itself removed
AccountRemoved ==
    /\ "removed" \in subs
    /\ UNCHANGED <<new_result, acc>>
    /\ Commit(_account_removed(Cur))

\* the host application destroys the widget
HostDestroy ==
    /\ lifecycle = "alive"
    /\ Commit(gtk_widget_destroy(Cur))
    /\ UNCHANGED <<new_result, acc>>

\* the last reference on a destroyed widget is dropped: GObject runs dispose
\* once more and frees the instance; calls made with the widget as their
\* weak object (the Statuses fetch, line 205) are cancelled
Finalize ==
    /\ lifecycle = "disposed"
    /\ Commit([presence_widget_dispose(Cur) EXCEPT !.lifecycle = "finalized",
                                                   !.calls.fetch = 0])
    /\ UNCHANGED <<new_result, acc>>

Next ==
    \/ \E account \in {NULL, ACCOUNT} : New(account)
    \/ \E b \in BOOLEAN : AccountSetEnabled(b)
    \/ \E n \in DisplayNames : AccountSetDisplayName(n)
    \/ \E p \in PresenceKinds : AccountSetPresence(p)
    \/ \E m \in StatusMessages : AccountSetStatusMessage(m)
    \/ \E p \in PresenceKinds, m \in StatusMessages :
           AccountSetPresenceAndMessage(p, m)
    \/ UserToggle
    \/ \E ok \in BOOLEAN : SetEnabledComplete(ok)
    \/ \E st \in ConnectionStatuses, c \in {NULL} \cup Connections :
           AccountStatusChanged(st, c)
    \/ \E e \in BOOLEAN, h \in BOOLEAN : ReadyComplete(e, h)
    \/ \E v \in Maps \cup {"not-a-map"} : FetchComplete(FALSE, v)
    \/ FetchComplete(TRUE, NULL)
    \/ AccountRemoved
    \/ HostDestroy
    \/ Finalize

Spec == Init /\ [][Next]_vars

\* ------------------------------------------------------------ projections
\* the text the status-message sync shows for an account
MessageProjection(a) ==
    IF a.status_message = "" THEN DefaultMessageFor(a.presence)
    ELSE a.status_message

\* a step in which _notify_enabled ran on a live widget
EnabledSyncAtConstruction == New(ACCOUNT)
EnabledSyncOnNotify == lifecycle = "alive" /\ \E b \in BOOLEAN : AccountSetEnabled(b)
EnabledSyncOnCompletion ==
    /\ lifecycle = "alive"
    /\ acc' # acc
    /\ SetEnabledComplete(TRUE)

\* ------------------------------------------------------------------ claims
\* C1: an enabled-sync (_notify_enabled at construction or on an 'enabled'
\* notification) never issues a set_enabled request: the toggle event its
\* write fires is received with the guard above zero and is ignored.
C1_EnabledSyncIssuesNoRequest ==
    [][/\ (EnabledSyncAtConstruction \/ EnabledSyncOnNotify)
            => calls'.set_enabled = calls.set_enabled
       /\ EnabledSyncOnCompletion
            => calls'.set_enabled = Tail(calls.set_enabled)
       /\ (EnabledSyncAtConstruction \/ EnabledSyncOnNotify
              \/ EnabledSyncOnCompletion)
            => /\ priv'.enabled_check.active = acc'.enabled
               /\ \A i \in DOMAIN toggled_log' : toggled_log'[i].lock > 0]_vars

\* an enabled-sync flipped the toggle and its echo was ignored
C1_Witness ==
    /\ lifecycle = "alive"
    /\ toggled_log # <<>>
    /\ toggled_log[1].lock > 0
    /\ calls.set_enabled = <<>>

\* C2: a toggle event received with the guard at zero issues exactly one
\* set_enabled request carrying the toggle's new value; one received with
\* the guard above zero issues none.
C2_ToggleIssuesOneRequest ==
    [][/\ UserToggle => Len(toggled_log') = 1
       /\ \A i \in DOMAIN toggled_log' :
            IF toggled_log'[i].lock = 0
            THEN /\ toggled_log'[i].active = priv'.enabled_check.active
                 /\ priv'.enabled_check.active # priv.enabled_check.active
                 /\ calls'.set_enabled = Append(calls.set_enabled,
                                               priv'.enabled_check.active)
            ELSE Len(calls'.set_enabled) <= Len(calls.set_enabled)]_vars

\* the user switched the account on and the request is outstanding
C2_Witness ==
    /\ toggled_log = <<[lock |-> 0, active |-> TRUE]>>
    /\ calls.set_enabled = <<TRUE>>
    /\ priv.enabled_check.active = TRUE

\* C3: on a live widget, after every account change and its notification,
\* the message text is the default for the current presence when the
\* account's status message is empty, and the status message otherwise.
C3_MessageFollowsAccount ==
    lifecycle = "alive" => priv.status_message = MessageProjection(acc)

\* the condition under which _status_changed starts the probe
ProbeWanted(new_status, conn) ==
    /\ conn # NULL
    /\ new_status \in {TP_CONNECTION_STATUS_CONNECTED,
                       TP_CONNECTION_STATUS_DISCONNECTED}

\* C4: a status_changed event (the one raised at the end of construction
\* included) starts a become-ready request if and only if the account has a
\* connection and new_status is Connected or Disconnected; it never starts
\* a Statuses fetch.
C4_ProbeStartsIffConnectedOrDisconnected ==
    [][/\ \A st \in ConnectionStatuses, c \in {NULL} \cup Connections :
            ("status-changed" \in subs /\ AccountStatusChanged(st, c))
            => /\ calls'.ready =
                    calls.ready + (IF ProbeWanted(st, c) THEN 1 ELSE 0)
               /\ calls'.fetch = calls.fetch
       /\ New(ACCOUNT)
            => /\ calls'.ready =
                    (IF ProbeWanted(acc.connection_status, acc.connection)
                     THEN 1 ELSE 0)
               /\ calls'.fetch = 0]_vars

\* a live widget with a probe under way on the account's connection
C4_Witness ==
    /\ lifecycle = "alive"
    /\ acc.connection # NULL
    /\ acc.connection_status # TP_CONNECTION_STATUS_CONNECTING
    /\ calls.ready = 1

\* C5: when a become-ready request completes without error on a connection
\* that declares the simple-presence interface, exactly one Statuses fetch
\* is issued; without the interface none is; and a completed fetch, failed
\* or not, issues no further fetch.  (The widget still exists: a callback on
\* a freed widget is the subject of the teardown claims.)
C5_OneFetchPerReady ==
    [][/\ \A e \in BOOLEAN, h \in BOOLEAN :
            (lifecycle # "finalized" /\ ReadyComplete(e, h))
            => /\ calls'.fetch =
                    calls.fetch + (IF ~e /\ h THEN 1 ELSE 0)
               /\ calls'.ready = calls.ready - 1
       /\ (\/ FetchComplete(TRUE, NULL)
           \/ \E v \in Maps \cup {"not-a-map"} : FetchComplete(FALSE, v))
            => /\ calls'.fetch = calls.fetch - 1
               /\ calls'.ready = calls.ready]_vars

\* the probe has reached the fetch step and no become-ready is left
C5_Witness ==
    /\ lifecycle = "alive"
    /\ calls.ready = 0
    /\ calls.fetch = 1

\* C6: a Statuses fetch that completes with an error leaves the cached map,
\* the references held on every map, and every other field of the widget
\* as they were.
C6_FailedFetchChangesNothing ==
    [][FetchComplete(TRUE, NULL)
          => /\ UNCHANGED <<priv, heap, subs, lifecycle, acc>>
             /\ lifecycle # "finalized"
                  => warning' = "_get_property_statuses"]_vars

\* a fetch has just failed on a live widget that has a map cached
C6_Witness ==
    /\ lifecycle = "alive"
    /\ warning = "_get_property_statuses"
    /\ priv.statuses # NULL
    /\ heap.map_refs[priv.statuses] = 1

\* C7: a successful fetch makes the returned map the cached map; after any
\* sequence of fetches the widget holds exactly one reference on the cached
\* map and none on any other, and no map is released more often than it
\* was referenced.
C7_CachedMapHeldOnce ==
    /\ [](/\ ~heap.bad_unref
          /\ \A m \in Maps :
                heap.map_refs[m] = (IF priv.statuses = m THEN 1 ELSE 0))
    /\ [][\A m \in Maps :
            (lifecycle # "finalized" /\ FetchComplete(FALSE, m))
            => priv'.statuses = m]_vars

\* the second map is cached and the first is no longer referenced
C7_Witness ==
    /\ priv.statuses = "map2"
    /\ heap.map_refs["map2"] = 1
    /\ heap.map_refs["map1"] = 0
    /\ calls.fetch = 1

\* C8: a 'removed' event can be delivered in every state of a live widget
\* and always leaves the widget destroyed.
C8_RemovedDestroys ==
    /\ [](lifecycle = "alive" => ENABLED AccountRemoved)
    /\ [][AccountRemoved
           => /\ lifecycle' \in {"disposed", "finalized"}
              /\ priv'.account = NULL]_vars

\* destroyed with a fetch outstanding, a request queued and a map cached
C8_Witness ==
    /\ lifecycle = "disposed"
    /\ calls.fetch > 0
    /\ calls.set_enabled # <<>>
    /\ priv.statuses # NULL

\* C9: when construction completes the six signals are connected, every
\* visual field shows the account's current value, and the guard is zero;
\* a live widget never shows the empty field it was initialised with.
C9_ConstructionPrimes ==
    /\ [][New(ACCOUNT)
           => /\ lifecycle' = "alive"
              /\ subs' = AccountSignals
              /\ Cardinality(subs') = 6
              /\ priv'.enabled_check.active = acc.enabled
              /\ priv'.enabled_check.label = acc.display_name
              /\ priv'.status_icon = IconFor(acc.presence)
              /\ priv'.status_message = MessageProjection(acc)
              /\ priv'.updating_ui_lock = 0]_vars
    /\ [](lifecycle = "alive"
           => /\ priv.enabled_check.label # InitPriv.enabled_check.label
              /\ priv.status_icon # InitPriv.status_icon
              /\ priv.status_message # InitPriv.status_message)

\* a widget built for an enabled account named "bob"
C9_Witness ==
    /\ new_result = "widget"
    /\ lifecycle = "alive"
    /\ priv.enabled_check = [active |-> TRUE, label |-> "bob"]
    /\ toggled_log # <<>>

\* C10: presence_widget_new with a NULL account returns NULL and leaves no
\* widget behind: nothing is connected, no handler runs, nothing is issued.
C10_NullAccountRefused ==
    /\ [][New(NULL)
           => /\ new_result' = "NULL"
              /\ toggled_log' = <<>>
              /\ UNCHANGED <<lifecycle, priv, subs, calls, heap, acc>>]_vars
    /\ [](lifecycle = "none"
           => /\ priv = InitPriv
              /\ subs = {}
              /\ calls = [set_enabled |-> <<>>, ready |-> 0, fetch |-> 0]
              /\ heap.account_refs = 0)

\* a construction was refused and no widget exists
C10_Witness ==
    /\ new_result = "NULL"
    /\ lifecycle = "none"

\* ------------------------------------------------- the tables on their own
\* A widget on an account whose presence ranges over every presence type,
\* with no connection: only the two table lookups are exercised.
TableMessages == {"", "brb", "Away"}

InitTables ==
    /\ lifecycle = "none"
    /\ new_result = "none"
    /\ priv = InitPriv
    /\ subs = {}
    /\ acc \in [enabled : {FALSE}, display_name : {"alice"},
                presence : AllPresenceKinds, status_message : TableMessages,
                connection_status : {TP_CONNECTION_STATUS_CONNECTING},
                connection : {NULL}]
    /\ calls = [set_enabled |-> <<>>, ready |-> 0, fetch |-> 0]
    /\ heap = [account_refs |-> 0, map_refs |-> [m \in Maps |-> 0],
               bad_unref |-> FALSE]
    /\ toggled_log = <<>>
    /\ warning = ""

NextTables ==
    \/ New(ACCOUNT)
    \/ \E p \in AllPresenceKinds : AccountSetPresence(p)
    \/ \E m \in TableMessages : AccountSetStatusMessage(m)
    \/ \E p \in AllPresenceKinds, m \in TableMessages :
           AccountSetPresenceAndMessage(p, m)

SpecTables == InitTables /\ [][NextTables]_vars

\* the default messages in the order the documentation lists them
C11_Listed ==
    <<"Unset", "Offline", "Available", "Away", "Extended Away", "Hidden",
      "Busy", "Unknown", "Error">>

\* C11: both tables have an entry, and a non-empty one, for each of the
\* nine presence types; a presence notification shows the icon of the new
\* presence, and an empty status message shows the k-th listed default
\* message for presence k.
C11_TablesTotal ==
    /\ [](/\ Cardinality(AllPresenceKinds) = 9
          /\ \A k \in AllPresenceKinds :
                /\ k + 1 \in DOMAIN presence_icons
                /\ k + 1 \in DOMAIN default_messages
                /\ IconFor(k) \notin {"", NULL}
                /\ DefaultMessageFor(k) \notin {"", NULL})
    /\ [][/\ \A k \in AllPresenceKinds :
               (lifecycle = "alive" /\ AccountSetPresence(k))
               => priv'.status_icon = IconFor(k)
          /\ (lifecycle = "alive" /\ AccountSetStatusMessage(""))
               => priv'.status_message = C11_Listed[acc.presence + 1]
          /\ New(ACCOUNT)
               => /\ priv'.status_icon = IconFor(acc.presence)
                  /\ (acc.status_message = ""
                       => priv'.status_message
                            = C11_Listed[acc.presence + 1])]_vars

\* the account is in Error with no message and the widget says so
C11_Witness ==
    /\ lifecycle = "alive"
    /\ acc.presence = 8
    /\ acc.status_message = ""
    /\ priv.status_message = "Error"
    /\ priv.status_icon = "empathy-offline"

\* the widget has been destroyed: disposed, or disposed and freed
Destroyed == lifecycle \in {"disposed", "finalized"}

\* a step in which the account changes a property or its status, or
\* reports itself removed
AccountEvent == acc' # acc \/ AccountRemoved

\* C12: once the widget is destroyed, no later account event (a property
\* notification, status-changed, a second 'removed') runs one of its
\* handlers: none starts a request with the widget as its data, none runs
\* the dispose chain again, none touches the widget's fields.
C12_NoHandlerAfterDestroy ==
    [][(Destroyed /\ AccountEvent)
          => /\ calls'.ready = calls.ready
             /\ calls'.fetch = calls.fetch
             /\ priv' = priv
             /\ heap' = heap
             /\ warning' = ""]_vars

\* C13: a become-ready or Statuses completion that arrives after the
\* widget was destroyed is suppressed: it issues no fetch on the widget's
\* behalf and does not write the cached map.
C13_LateCompletionSuppressed ==
    [][Destroyed
          => /\ calls'.fetch <= calls.fetch
             /\ priv'.statuses = priv.statuses
             /\ heap'.map_refs = heap.map_refs
             /\ warning' \notin {"_connection_ready",
                                 "_get_property_statuses"}]_vars

\* C14: a become-ready request that completes with an error issues no
\* Statuses fetch and leaves the cached map, the references on the maps and
\* every other field of the widget as they were; it only logs a warning.
C14_FailedReadyChangesNothing ==
    [][\A h \in BOOLEAN :
          (lifecycle # "finalized" /\ ReadyComplete(TRUE, h))
          => /\ calls'.fetch = calls.fetch
             /\ calls'.ready = calls.ready - 1
             /\ calls'.set_enabled = calls.set_enabled
             /\ UNCHANGED <<priv, heap, subs, lifecycle, acc>>
             /\ warning' = "_connection_ready"]_vars

\* a readiness probe has just failed on a live widget: nothing is fetched
\* and the map cached earlier is still there
C14_Witness ==
    /\ lifecycle = "alive"
    /\ warning = "_connection_ready"
    /\ calls.fetch = 0
    /\ priv.statuses # NULL

\* C15 as stated: for one connection at most one Statuses fetch is ever
\* issued while it is the account's connection, so no fetch is outstanding
\* on a live widget that already caches a map fetched from it.
C15_OneFetchPerConnection ==
    ~ /\ lifecycle = "alive"
      /\ Cardinality(Connections) = 1
      /\ acc.connection \in Connections
      /\ priv.statuses # NULL
      /\ calls.fetch > 0

\* C15 (amended): the Statuses map is fetched at most once per readiness
\* probe, not once per connection.  A become-ready request is started only
\* by a status_changed event (construction's included) that carries
\* Connected or Disconnected and finds a connection, one request per event;
\* a fetch is issued only by the completion of a become-ready request, one
\* per request; the completion of a fetch starts nothing.
C15_OneFetchPerProbe ==
    [][LET df == calls'.fetch - calls.fetch
           dr == calls'.ready - calls.ready
       IN  \/ dr = 0 /\ df = 0
           \/ /\ dr = 1
              /\ df = 0
              /\ ProbeWanted(acc'.connection_status, acc'.connection)
              /\ \/ lifecycle = "none"
                 \/ acc'.connection_status # acc.connection_status
           \/ dr = -1 /\ df \in {0, 1}
           \/ dr = 0 /\ df = -1
           \/ /\ dr = 0
              /\ df < 0
              /\ lifecycle = "disposed"
              /\ lifecycle' = "finalized"]_vars

\* the connection whose map is cached is being fetched a second time
C15_Witness ==
    /\ lifecycle = "alive"
    /\ acc.connection = "conn1"
    /\ acc.connection_status = TP_CONNECTION_STATUS_CONNECTED
    /\ priv.statuses = "map1"
    /\ calls.fetch = 1
    /\ calls.ready = 0

\* C16: the cached map lives no longer than the connection it came from:
\* when the account has no connection, or the widget has been destroyed,
\* the widget holds no map and no reference on any map.
C16_MapDroppedWithConnection ==
    (acc.connection = NULL \/ Destroyed)
    => /\ priv.statuses = NULL
       /\ \A m \in Maps : heap.map_refs[m] = 0

\* C17: the completion of a set_enabled request runs no widget code.  A
\* rejected request changes nothing of the widget or the account; an
\* accepted one acts only through the 'enabled' notification it causes.
\* The toggle changes only when the user flips it or when the enabled-sync
\* sets it to the account's value, so after a rejected request it keeps the
\* user's value.
C17_FireAndForget ==
    [][/\ SetEnabledComplete(FALSE)
            => /\ UNCHANGED <<priv, subs, lifecycle, heap, acc>>
               /\ calls' = [calls EXCEPT !.set_enabled = Tail(@)]
               /\ toggled_log' = <<>>
               /\ warning' = ""
       /\ (lifecycle = "alive" /\ SetEnabledComplete(TRUE))
            => /\ priv' = (IF acc' # acc
                          THEN [priv EXCEPT
                                  !.enabled_check.active = acc'.enabled]
                          ELSE priv)
               /\ calls' = [calls EXCEPT !.set_enabled = Tail(@)]
               /\ UNCHANGED <<subs, lifecycle, heap>>
       /\ (/\ lifecycle = "alive"
           /\ lifecycle' = "alive"
           /\ priv'.enabled_check.active # priv.enabled_check.active)
            => /\ Len(toggled_log') = 1
               /\ IF toggled_log'[1].lock = 0
                  THEN UserToggle
                  ELSE /\ acc'.enabled # acc.enabled
                       /\ priv'.enabled_check.active = acc'.enabled]_vars

\* the account rejected the user's request: nothing is outstanding and the
\* toggle still shows the user's value, not the account's
C17_Witness ==
    /\ lifecycle = "alive"
    /\ calls.set_enabled = <<>>
    /\ toggled_log = <<>>
    /\ warning = ""
    /\ priv.enabled_check.active = TRUE
    /\ acc.enabled = FALSE

\* C19: the guard counter is zero in every state between two handlers and
\* never negative; the toggle handler sees it at 1 only inside an
\* enabled-sync (construction or an 'enabled' notification) and at 0
\* otherwise, so a toggle by the user is never suppressed.
C19_GuardBalanced ==
    /\ [](/\ priv.updating_ui_lock = 0
          /\ \A i \in DOMAIN toggled_log : toggled_log[i].lock \in {0, 1})
    /\ [][/\ \A i \in DOMAIN toggled_log' :
               toggled_log'[i].lock = 1
               => (lifecycle = "none" \/ acc'.enabled # acc.enabled)
          /\ UserToggle
               => /\ toggled_log' =
                       <<[lock |-> 0,
                          active |-> ~priv.enabled_check.active]>>
                  /\ calls'.set_enabled =
                       Append(calls.set_enabled,
                              ~priv.enabled_check.active)]_vars

\* an enabled-sync has just flipped the toggle under the guard while a
\* request of the user is outstanding, and the guard is back at zero
C19_Witness ==
    /\ lifecycle = "alive"
    /\ calls.set_enabled # <<>>
    /\ toggled_log # <<>>
    /\ toggled_log[1].lock = 1
    /\ priv.updating_ui_lock = 0

\* C20: teardown releases the account reference exactly once: a destroyed
\* widget has a null account field and holds no reference, and no run of
\* the dispose chain, the second one included, hands a null account to
\* g_object_unref.
C20_AccountReleasedOnce ==
    /\ heap.account_refs \in {0, 1}
    /\ Destroyed => (priv.account = NULL /\ heap.account_refs = 0)
    /\ warning # "presence_widget_dispose"

\* ------------------------------------------- the enabled loop, with fairness
\* The account accepts every set_enabled request and completes it in the
\* end; its 'enabled' notifications are delivered with the change.  The
\* account has no connection, so only the enabled loop is exercised.
InitLive ==
    /\ lifecycle = "none"
    /\ new_result = "none"
    /\ priv = InitPriv
    /\ subs = {}
    /\ acc \in [enabled : BOOLEAN, display_name : DisplayNames,
                presence : PresenceKinds, status_message : StatusMessages,
                connection_status : {TP_CONNECTION_STATUS_CONNECTING},
                connection : {NULL}]
    /\ calls = [set_enabled |-> <<>>, ready |-> 0, fetch |-> 0]
    /\ heap = [account_refs |-> 0, map_refs |-> [m \in Maps |-> 0],
               bad_unref |-> FALSE]
    /\ toggled_log = <<>>
    /\ warning = ""

NextLive ==
    \/ New(ACCOUNT)
    \/ \E b \in BOOLEAN : AccountSetEnabled(b)
    \/ \E n \in DisplayNames : AccountSetDisplayName(n)
    \/ UserToggle
    \/ SetEnabledComplete(TRUE)
    \/ AccountRemoved

SpecLive ==
    /\ InitLive
    /\ [][NextLive]_vars
    /\ WF_vars(SetEnabledComplete(TRUE))

\* the toggle of a live widget shows the account's value and no set_enabled
\* request is outstanding
Settled ==
    lifecycle = "alive"
    => /\ priv.enabled_check.active = acc.enabled
       /\ calls.set_enabled = <<>>

\* C18: when every set_enabled request is accepted and completes, then,
\* unless the user goes on toggling for ever, the toggle ends up equal to
\* the account's enabled value with no request outstanding and stays so:
\* the enabled-syncs, those of external changes included, issue no request.
C18_EnabledLoopSettles ==
    ([]<><<UserToggle>>_vars) \/ <>[]Settled

\* a request of the user is outstanding and an external change has just put
\* the toggle back under the guard
C18_Witness ==
    /\ lifecycle = "alive"
    /\ calls.set_enabled = <<TRUE>>
    /\ acc.enabled = FALSE
    /\ priv.enabled_check.active = FALSE
    /\ toggled_log = <<[lock |-> 1, active |-> FALSE]>>

====
